---- MODULE Spec2Model ----
(***************************************************************************)
(* Model of the finite-volume oil-spill simulator: mesh cells and their    *)
(* adjacency (simulation/mesh), the upwind flux (simulation/physics) and   *)
(* the time stepper (simulation/simulation.py).                            *)
(*                                                                         *)
(* Numbers.  The program computes in IEEE doubles; the model computes in   *)
(* exact rationals <<n, d>> (d > 0, lowest terms).  Cell ids and local     *)
(* edge indices are 0-based as in the source; point_ids is a TLA+ sequence *)
(* so local vertex k of the source is point_ids[k + 1].                    *)
(***************************************************************************)
EXTENDS Integers, Sequences, FiniteSets, TLC

(***************************************************************************)
(* Bounds of the model.                                                    *)
(***************************************************************************)
\* largest number of cells of a mesh of the adjacency specification
MaxNbrCells == 3
\* largest number of cells of a mesh of the simulation specification
MaxCells == 3

(***************************************************************************)
(* Exact rational arithmetic standing for the program's float arithmetic.  *)
(***************************************************************************)
Abs(x) == IF x < 0 THEN -x ELSE x

RECURSIVE GCD(_, _)
GCD(a, b) == IF b = 0 THEN a ELSE GCD(b, a % b)

Rat(n, d) ==
    LET g == GCD(Abs(n), Abs(d))
        s == IF d < 0 THEN -1 ELSE 1
    IN  <<(s * n) \div g, (s * d) \div g>>

RInt(n) == <<n, 1>>
RZero == <<0, 1>>
ROne == <<1, 1>>
RNeg(p) == <<-p[1], p[2]>>
\* sums over the least common denominator, products after cross-cancelling:
\* the same rationals, with smaller intermediate integers
RAdd(p, q) ==
    LET g == GCD(p[2], q[2])
    IN  Rat(p[1] * (q[2] \div g) + q[1] * (p[2] \div g), p[2] * (q[2] \div g))
RSub(p, q) == RAdd(p, RNeg(q))
RMul(p, q) ==
    LET g1 == GCD(Abs(p[1]), q[2])
        g2 == GCD(Abs(q[1]), p[2])
    IN  IF p[1] = 0 \/ q[1] = 0 THEN <<0, 1>>
        ELSE <<(p[1] \div g1) * (q[1] \div g2), (p[2] \div g2) * (q[2] \div g1)>>
RInv(q) == IF q[1] < 0 THEN <<-q[2], -q[1]>> ELSE <<q[2], q[1]>>
RDiv(p, q) == RMul(p, RInv(q))
RLt(p, q) == RSub(p, q)[1] < 0
RLe(p, q) == RSub(p, q)[1] <= 0
RAbs(p) == <<Abs(p[1]), p[2]>>
RHalf == <<1, 2>>

\* 2-vectors of rationals (np.ndarray of shape (2,))
VAdd(a, b) == <<RAdd(a[1], b[1]), RAdd(a[2], b[2])>>
VSub(a, b) == <<RSub(a[1], b[1]), RSub(a[2], b[2])>>
VScale(s, a) == <<RMul(s, a[1]), RMul(s, a[2])>>
VNeg(a) == <<RNeg(a[1]), RNeg(a[2])>>
Dot(a, b) == RAdd(RMul(a[1], b[1]), RMul(a[2], b[2]))
VZero == <<RZero, RZero>>

(***************************************************************************)
(* The mesh.  A cell is [kind, point_ids]; kind "line" is a Line, "tri" a  *)
(* Triangle built with coordinates (it has edge_to_neighbor), "topo" a     *)
(* Triangle built with points=None (it has no edge_to_neighbor attribute). *)
(* A mesh is a function from the ids 0..n-1 to cells: Mesh._read_mesh      *)
(* gives the cell at position i the idx i.                                 *)
(***************************************************************************)
\* The point table msh.points (first two components): an input, fixed here.
\* Points 1, 2, 4, 6 are collinear; point 7 lies on point 0.  The meshes of
\* the simulation use points 0..4.
points ==
    [p \in 0..7 |->
        CASE p = 0 -> <<RZero, RZero>>
          [] p = 1 -> <<RZero, ROne>>
          [] p = 2 -> <<RHalf, RHalf>>
          [] p = 3 -> <<RHalf, <<1, 4>>>>
          [] p = 4 -> <<ROne, RZero>>
          [] p = 5 -> <<ROne, ROne>>
          [] p = 6 -> <<<<1, 4>>, <<3, 4>>>>
          [] p = 7 -> <<RZero, RZero>>]

\* Python's None in a neighbor slot (cell ids are >= 0)
None == -1

Line(ids) == [kind |-> "line", point_ids |-> ids]
Triangle(ids) == [kind |-> "tri", point_ids |-> ids]
TopoTriangle(ids) == [kind |-> "topo", point_ids |-> ids]

IsTriangle(c) == c.kind \in {"tri", "topo"}
IsLine(c) == c.kind = "line"
\* hasattr(cell, "edge_to_neighbor"): set only by the geometry branch of
\* Triangle.__init__
HasEdgeAttr(c) == c.kind = "tri"

Ids(cs) == DOMAIN cs
PointSet(c) == {c.point_ids[k] : k \in DOMAIN c.point_ids}
\* edge k of a triangle: {point_ids[k], point_ids[(k + 1) % 3]}
EdgeIds(c, k) == {c.point_ids[k + 1], c.point_ids[((k + 1) % 3) + 1]}

\* Meshes: all functions 0..n-1 -> candidates, 1 <= n <= max
MeshesOver(cands, max) ==
    UNION {[0..(n - 1) -> cands] : n \in 1..max}

(***************************************************************************)
(* Cell.compute_neighbors                                                  *)
(***************************************************************************)
NoEdges == <<None, None, None>>
\* value of the model for "the object has no edge_to_neighbor attribute"
NoAttr == <<>>

FreshEdges(c) == IF HasEdgeAttr(c) THEN NoEdges ELSE NoAttr

\* lines 65-72: the first local edge k whose id pair equals shared gets the
\* neighbor's idx; no edge matching leaves the slots alone
RECURSIVE MatchEdge(_, _, _, _, _)
MatchEdge(c, shared, j, e2n, k) ==
    IF k > 2 THEN e2n
    ELSE IF EdgeIds(c, k) = shared
         THEN [e2n EXCEPT ![k + 1] = j]
         ELSE MatchEdge(c, shared, j, e2n, k + 1)

\* a scan without the identity test of line 47
SkipSelfNever(i, j) == FALSE

\* line 47: "if cell is self: continue"
SkipSelf(i, j) == i = j

\* line 53: "if len(shared) != 2: continue"
NotAnEdge(shared) == Cardinality(shared) # 2

\* a scan that records the edge whatever the other cell is
SkipEdgeMapOwn(c, other) == ~HasEdgeAttr(c)

\* line 59: only a Triangle with the attribute, looking at a cell with the
\* attribute, records the edge
SkipEdgeMap(c, other) == ~HasEdgeAttr(c) \/ ~HasEdgeAttr(other)

\* lines 46-72: the scan over cell_list (a sequence of ids), in order
RECURSIVE ScanCells(_, _, _, _, _)
ScanCells(cs, i, cell_list, pos, acc) ==
    IF pos > Len(cell_list) THEN acc
    ELSE
      LET j == cell_list[pos]
          shared == PointSet(cs[i]) \cap PointSet(cs[j])
      IN  IF SkipSelf(i, j) THEN ScanCells(cs, i, cell_list, pos + 1, acc)
          ELSE IF NotAnEdge(shared)
          THEN ScanCells(cs, i, cell_list, pos + 1, acc)
          ELSE
            LET nb == Append(acc.neighbors, j)
            IN  IF SkipEdgeMap(cs[i], cs[j])
                THEN ScanCells(cs, i, cell_list, pos + 1,
                               [acc EXCEPT !.neighbors = nb])
                ELSE ScanCells(cs, i, cell_list, pos + 1,
                               [neighbors |-> nb,
                                edge_to_neighbor |->
                                    MatchEdge(cs[i], shared, j,
                                              acc.edge_to_neighbor, 0)])

\* the neighbor state of a cell as its constructor leaves it
FreshState(c) == [neighbors |-> <<>>, edge_to_neighbor |-> FreshEdges(c)]

\* a call that starts from what the previous call left
ClearedNot(c, self) == self

\* lines 38-44: neighbors = [] and, when the attribute exists,
\* edge_to_neighbor = [None, None, None]; self is the cell's neighbor state
\* at the call
Cleared(c, self) ==
    [neighbors |-> <<>>,
     edge_to_neighbor |->
         IF HasEdgeAttr(c) THEN NoEdges ELSE self.edge_to_neighbor]

\* lines 38-44 then the scan: the result for cell i, whose neighbor state at
\* the call is self, against cell_list
compute_neighbors(cs, i, cell_list, self) ==
    ScanCells(cs, i, cell_list, 1, Cleared(cs[i], self))

\* Mesh.cells as the list handed to compute_neighbors
CellList(cs) == [p \in 1..Cardinality(Ids(cs)) |-> p - 1]

(***************************************************************************)
(* Triangle geometry (cells.py, geometry mode).                            *)
(***************************************************************************)
\* self._points: the coordinates of local vertex k
TriPoint(c, k) == points[c.point_ids[k + 1]]

compute_midpoint(c) ==
    LET third == <<1, 3>>
    IN  VScale(third, VAdd(VAdd(TriPoint(c, 0), TriPoint(c, 1)), TriPoint(c, 2)))

\* an area that keeps the sign of the determinant
compute_area_signed(c) ==
    LET p1 == TriPoint(c, 0)
        p2 == TriPoint(c, 1)
        p3 == TriPoint(c, 2)
        det == RAdd(RAdd(RMul(p1[1], RSub(p2[2], p3[2])),
                         RMul(p2[1], RSub(p3[2], p1[2]))),
                    RMul(p3[1], RSub(p1[2], p2[2])))
    IN  RMul(RHalf, det)

compute_area(c) ==
    LET p1 == TriPoint(c, 0)
        p2 == TriPoint(c, 1)
        p3 == TriPoint(c, 2)
        det == RAdd(RAdd(RMul(p1[1], RSub(p2[2], p3[2])),
                         RMul(p2[1], RSub(p3[2], p1[2]))),
                    RMul(p3[1], RSub(p1[2], p2[2])))
    IN  RAbs(RMul(RHalf, det))

\* edge k runs from local vertex k to local vertex (k + 1) % 3
compute_edge_points(c, k) == <<TriPoint(c, k), TriPoint(c, (k + 1) % 3)>>

\* 0.0 / 0.0 in doubles: not a number (numpy warns and goes on)
NaN == <<0, 0>>
NaNVec == <<NaN, NaN>>

\* The source divides the oriented perpendicular by its norm and multiplies
\* by the edge length, the same number: in exact arithmetic that leaves the
\* perpendicular.  For an edge of length 0 the norm is 0 and line 200
\* divides 0 by 0: the normal is (nan, nan).
compute_normals(c, k) ==
    LET pi == compute_edge_points(c, k)[1]
        pj == compute_edge_points(c, k)[2]
        edge == VSub(pj, pi)
        normal == <<RNeg(edge[2]), edge[1]>>
        edge_midpoint == VScale(RHalf, VAdd(pi, pj))
        direction == VSub(edge_midpoint, compute_midpoint(c))
        oriented == IF RLt(Dot(normal, direction), RZero)
                    THEN VNeg(normal) ELSE normal
    IN  IF oriented = VZero THEN NaNVec ELSE oriented

\* v(x, y) = (y - 0.2 x, -x) at the centroid
velocity_field(c) ==
    LET m == compute_midpoint(c)
    IN  <<RSub(m[2], RMul(<<1, 5>>, m[1])), RNeg(m[1])>>

(***************************************************************************)
(* Triangle construction and the property getters.  A constructed Triangle *)
(* is the record of its attributes; NoGeometry is the None the             *)
(* topology-only branch stores in the geometry attributes.                 *)
(***************************************************************************)
NoGeometry == <<>>

\* a count test that lets a longer list through
WrongCountFewer(point_ids) == Len(point_ids) < 3

\* line 130: len(point_ids) != 3
WrongCount(point_ids) == Len(point_ids) # 3

\* Triangle.__init__(point_ids, idx, points); with_points = FALSE is
\* points=None.  The result is what was raised and the object left, if any.
TriangleInit(point_ids, idx, with_points) ==
    IF WrongCount(point_ids)
    THEN [raised |-> "ValueError", obj |-> <<>>]
    ELSE IF ~with_points
    THEN [raised |-> "",
          obj |-> [idx |-> idx, point_ids |-> point_ids, neighbors |-> <<>>,
                   kind |-> "topo",
                   x_mid |-> NoGeometry, area |-> NoGeometry,
                   edge_points |-> NoGeometry, normals |-> NoGeometry,
                   velocity |-> NoGeometry, edge_to_neighbor |-> NoAttr]]
    ELSE LET c == Triangle(point_ids)
         IN  [raised |-> "",
              obj |-> [idx |-> idx, point_ids |-> point_ids,
                       neighbors |-> <<>>, kind |-> "tri",
                       x_mid |-> compute_midpoint(c),
                       area |-> compute_area(c),
                       edge_points |-> <<compute_edge_points(c, 0),
                                         compute_edge_points(c, 1),
                                         compute_edge_points(c, 2)>>,
                       normals |-> <<compute_normals(c, 0),
                                     compute_normals(c, 1),
                                     compute_normals(c, 2)>>,
                       velocity |-> velocity_field(c),
                       edge_to_neighbor |-> NoEdges]]

\* a getter that never finds the geometry missing
GeometryMissingNever(v) == FALSE

\* lines 219, 225, 231, 237, 243, 249: self._x is None
GeometryMissing(v) == v = NoGeometry

\* lines 217-251: a getter over the stored attribute v
Getter(v) ==
    IF GeometryMissing(v) THEN [raised |-> "RuntimeError", val |-> <<>>]
    ELSE [raised |-> "", val |-> v]

\* lines 253-261: edge_vector, through the edge_points getter
EdgeVectorGetter(t) ==
    LET ep == Getter(t.edge_points)
    IN  IF ep.raised # "" THEN ep
        ELSE [raised |-> "",
              val |-> [k \in 1..3 |-> VSub(ep.val[k][2], ep.val[k][1])]]

Attributes ==
    {"x_mid", "midpoint", "area", "edge_points", "normals", "velocity",
     "edge_vector"}

\* reading attribute a of Triangle t
GetAttr(t, a) ==
    CASE a = "x_mid" -> Getter(t.x_mid)
      [] a = "midpoint" -> Getter(t.x_mid)
      [] a = "area" -> Getter(t.area)
      [] a = "edge_points" -> Getter(t.edge_points)
      [] a = "normals" -> Getter(t.normals)
      [] a = "velocity" -> Getter(t.velocity)
      [] a = "edge_vector" -> EdgeVectorGetter(t)

(***************************************************************************)
(* physics/flux.py                                                         *)
(***************************************************************************)
\* a flux that takes the neighbor's value for outflow and the cell's for inflow
flux_downwind(a, b, normal, edge_velocity) ==
    LET dot == Dot(edge_velocity, normal)
    IN  IF RLt(RZero, dot) THEN RMul(b, dot) ELSE RMul(a, dot)

flux(a, b, normal, edge_velocity) ==
    LET dot == Dot(edge_velocity, normal)
    IN  IF RLt(RZero, dot) THEN RMul(a, dot) ELSE RMul(b, dot)

\* a contribution that sums the two velocities without halving them
flux_contribution_sum(u_i, u_ngh, area_i, normal_i_l, edge_velocity_i, edge_velocity_ngh, dt_) ==
    LET edge_velocity_avg == VAdd(edge_velocity_i, edge_velocity_ngh)
    IN  RMul(RDiv(RNeg(dt_), area_i),
             flux(u_i, u_ngh, normal_i_l, edge_velocity_avg))

flux_contribution(u_i, u_ngh, area_i, normal_i_l, edge_velocity_i, edge_velocity_ngh, dt_) ==
    LET edge_velocity_avg ==
            VScale(RHalf, VAdd(edge_velocity_i, edge_velocity_ngh))
    IN  RMul(RDiv(RNeg(dt_), area_i),
             flux(u_i, u_ngh, normal_i_l, edge_velocity_avg))

(***************************************************************************)
(* Simulation.step.  cs, nb, e2n are the mesh, its neighbors lists and its *)
(* edge_to_neighbor lists; uu is self.u, un the scratch array being        *)
(* written.                                                                *)
(***************************************************************************)
NumCells(cs) == Cardinality(Ids(cs))

\* a sweep that reads the neighbor's value from the scratch array
NeighborValueScratch(cs, uu, un, ngh_idx) ==
    IF IsTriangle(cs[ngh_idx]) THEN un[ngh_idx] ELSE RZero

\* lines 86-91: u_ngh
NeighborValue(cs, uu, un, ngh_idx) ==
    IF IsTriangle(cs[ngh_idx]) THEN uu[ngh_idx] ELSE RZero

\* lines 86-91: v_ngh
NeighborVelocity(cs, ngh_idx) ==
    IF IsTriangle(cs[ngh_idx]) THEN velocity_field(cs[ngh_idx]) ELSE VZero

\* lines 77-102: what edge k adds to update
EdgeContribution(cs, e2n, uu, un, dt_, i, k) ==
    LET ngh_idx == e2n[i][k + 1]
    IN  IF ngh_idx = None THEN RZero
        ELSE flux_contribution(uu[i],
                               NeighborValue(cs, uu, un, ngh_idx),
                               compute_area(cs[i]),
                               compute_normals(cs[i], k),
                               velocity_field(cs[i]),
                               NeighborVelocity(cs, ngh_idx),
                               dt_)

\* lines 72-102: the loop "for k in range(len(cell.neighbors))", from k on
RECURSIVE EdgeLoop(_, _, _, _, _, _, _, _)
EdgeLoop(cs, e2n, uu, un, dt_, i, k, n) ==
    IF k >= n THEN RZero
    ELSE RAdd(EdgeContribution(cs, e2n, uu, un, dt_, i, k),
              EdgeLoop(cs, e2n, uu, un, dt_, i, k + 1, n))

\* a sweep that starts from what the scratch array held
CopyInNot(uu, un) == un

\* line 57: self.u_new[:] = self.u[:]
CopyIn(uu, un) == uu

\* a test that lets every Triangle through
DegenerateNever(c) == FALSE

\* line 68: "if Ai <= 0: continue"
Degenerate(c) == RLe(compute_area(c), RZero)

\* a write that drops the cell's own value
UpdatedOnly(ui, update) == update

\* line 105: self.u_new[i] = ui + update
Updated(ui, update) == RAdd(ui, update)

\* lines 60-105 from cell i on.  edge_to_neighbor and normals have three
\* entries: a triangle of positive area with more than three neighbors
\* raises IndexError at k = 3, before u_new[i] is written.
RECURSIVE Sweep(_, _, _, _, _, _, _)
Sweep(cs, nb, e2n, uu, dt_, i, un) ==
    IF i >= NumCells(cs) THEN [raised |-> FALSE, u_new |-> un]
    ELSE IF ~IsTriangle(cs[i]) THEN Sweep(cs, nb, e2n, uu, dt_, i + 1, un)
    ELSE IF Degenerate(cs[i])
    THEN Sweep(cs, nb, e2n, uu, dt_, i + 1, un)
    ELSE IF Len(nb[i]) > 3 THEN [raised |-> TRUE, u_new |-> un]
    ELSE Sweep(cs, nb, e2n, uu, dt_, i + 1,
               [un EXCEPT ![i] =
                   Updated(uu[i],
                           EdgeLoop(cs, e2n, uu, un, dt_, i, 0, Len(nb[i])))])

\* a step that leaves the Line slots as the sweep left them
EnforceBoundaryNot(cs, un) == un

\* lines 108-110
EnforceBoundary(cs, un) ==
    [i \in Ids(cs) |-> IF IsLine(cs[i]) THEN RZero ELSE un[i]]

\* step(): copy, sweep, boundary, swap.  A raise leaves self.u as it was and
\* the scratch array partly written.
StepResult(cs, nb, e2n, uu, un, dt_) ==
    LET sw == Sweep(cs, nb, e2n, uu, dt_, 0, CopyIn(uu, un))
    IN  IF sw.raised
        THEN [raised |-> TRUE, u |-> uu, u_new |-> sw.u_new]
        ELSE [raised |-> FALSE, u |-> EnforceBoundary(cs, sw.u_new),
              u_new |-> uu]

(***************************************************************************)
(* Simulation.set_initial_state                                            *)
(***************************************************************************)
\* np.exp on doubles is modelled in fixed point with ExpScale steps to the
\* unit: exp(-q) is ExpBaseNum/ExpBaseDen (e^(-1/ExpRes) to three digits)
\* multiplied floor(q * ExpRes) times into ExpScale, each product truncated.
\* Like the double it is positive, non-increasing in q, and underflows to 0.
ExpScale == 4096
ExpBaseNum == 15
ExpBaseDen == 17
ExpRes == 8

RECURSIVE PowFix(_, _)
PowFix(k, acc) ==
    IF k = 0 \/ acc = 0 THEN acc
    ELSE PowFix(k - 1, (acc * ExpBaseNum) \div ExpBaseDen)

\* exp(-q) for a rational q >= 0
ExpNeg(q) == Rat(PowFix((q[1] * ExpRes) \div q[2], ExpScale), ExpScale)

\* a displacement with the sign of x_start flipped
DisplacementPlus(x, x_start) == VAdd(x, x_start)

\* line 160: dx = x - x_start
Displacement(x, x_start) == VSub(x, x_start)

\* lines 159-162
GaussianAt(c, x_start, sigma2) ==
    LET dx == Displacement(compute_midpoint(c), x_start)
    IN  ExpNeg(RDiv(Dot(dx, dx), sigma2))

\* lines 156-165: the array after the loop
set_initial_state(cs, uu, x_start, sigma2) ==
    [i \in Ids(cs) |->
        IF IsTriangle(cs[i]) THEN GaussianAt(cs[i], x_start, sigma2)
        ELSE RZero]

\* the defaults of line 145
DefaultXStart == <<<<7, 20>>, <<9, 20>>>>
DefaultSigma2 == <<1, 100>>

(***************************************************************************)
(* Simulation.find_fishing_ground_cells and oil_in_fishing_ground.  borders *)
(* is <<<<x_min, x_max>>, <<y_min, y_max>>>>.                               *)
(***************************************************************************)
\* __init__ sets no fishing_cells attribute: the attribute is missing until
\* the first find_fishing_ground_cells
NoCache == <<None>>

\* a test that leaves the two ends of the interval out
InsideOpen(x, lo, hi) == RLt(lo, x) /\ RLt(x, hi)

\* line 185: lo <= x <= hi
Inside(x, lo, hi) == RLe(lo, x) /\ RLe(x, hi)

\* lines 180-185
InFishingGround(c, borders) ==
    LET m == compute_midpoint(c)
    IN  /\ Inside(m[1], borders[1][1], borders[1][2])
        /\ Inside(m[2], borders[2][1], borders[2][2])

\* lines 176-186: the loop from cell i on, acc the list so far
RECURSIVE ScanFishingGround(_, _, _, _)
ScanFishingGround(cs, borders, i, acc) ==
    IF i >= NumCells(cs) THEN acc
    ELSE IF ~IsTriangle(cs[i]) THEN ScanFishingGround(cs, borders, i + 1, acc)
    ELSE IF InFishingGround(cs[i], borders)
    THEN ScanFishingGround(cs, borders, i + 1, Append(acc, i))
    ELSE ScanFishingGround(cs, borders, i + 1, acc)

\* lines 174-186
find_fishing_ground_cells(cs, borders) == ScanFishingGround(cs, borders, 0, <<>>)

\* a term that leaves the area out
CellOilPlain(cs, uu, i) == uu[i]

\* line 198: self.u[i] * self.mesh.cells[i].area
CellOil(cs, uu, i) == RMul(uu[i], compute_area(cs[i]))

\* line 198: sum(...) over the list from position p on
RECURSIVE SumOil(_, _, _, _)
SumOil(cs, uu, ids, p) ==
    IF p > Len(ids) THEN RZero
    ELSE RAdd(CellOil(cs, uu, ids[p]), SumOil(cs, uu, ids, p + 1))

\* line 198
oil_in_fishing_ground(cs, uu, ids) == SumOil(cs, uu, ids, 1)

(***************************************************************************)
(* Mesh.__init__ and Mesh._read_mesh.  What meshio.read gives for the file *)
(* is [outcome, blocks]: outcome "ok" or the name of the exception it       *)
(* raised; a block is [type, data], data the sequence of its rows.          *)
(***************************************************************************)
\* a skipped row that uses up an id
AfterSkipCounting(cell_id) == cell_id + 1

\* lines 70-72: an unsupported row is skipped, the counter stays
AfterSkip(cell_id) == cell_id

\* lines 63-75: the rows of one block from row r on; acc is
\* [cells, cell_id]
RECURSIVE ReadRows(_, _, _, _)
ReadRows(cellType, cellData, r, acc) ==
    IF r > Len(cellData) THEN acc
    ELSE IF cellType = "line"
    THEN ReadRows(cellType, cellData, r + 1,
                  [cells |-> Append(acc.cells,
                                    [kind |-> "line", idx |-> acc.cell_id,
                                     point_ids |-> cellData[r]]),
                   cell_id |-> acc.cell_id + 1])
    ELSE IF cellType = "triangle"
    THEN ReadRows(cellType, cellData, r + 1,
                  [cells |-> Append(acc.cells,
                                    [kind |-> "tri", idx |-> acc.cell_id,
                                     point_ids |-> cellData[r]]),
                   cell_id |-> acc.cell_id + 1])
    ELSE ReadRows(cellType, cellData, r + 1,
                  [acc EXCEPT !.cell_id = AfterSkip(@)])

\* lines 54-75: the blocks from block b on
RECURSIVE ReadBlocks(_, _, _)
ReadBlocks(cell_blocks, b, acc) ==
    IF b > Len(cell_blocks) THEN acc
    ELSE IF cell_blocks[b].type = "vertex"
    THEN ReadBlocks(cell_blocks, b + 1, acc)
    ELSE ReadBlocks(cell_blocks, b + 1,
                    ReadRows(cell_blocks[b].type, cell_blocks[b].data, 1, acc))

\* an except clause that lets the reader's exception through
WrappedNot(exc) == exc

\* lines 43-44: except Exception as e: raise RuntimeError(...)
Wrapped(exc) == "RuntimeError"

\* Mesh(filename): what it raised and the Mesh it returned, if any
MeshInit(f) ==
    IF f.outcome # "ok"
    THEN [raised |-> Wrapped(f.outcome), obj |-> <<>>]
    ELSE [raised |-> "",
          obj |-> [cells |-> ReadBlocks(f.blocks, 1,
                                        [cells |-> <<>>, cell_id |-> 0]).cells]]

(***************************************************************************)
(* Config (config.py).  A TOML value is [t, n, s, items]: t its Python     *)
(* type, and its value in n (a number, as an exact rational), s (a string) *)
(* or items (a list).  Absent is what data.get gives for a key the file    *)
(* does not hold.                                                          *)
(***************************************************************************)
Absent == [t |-> "none", n |-> RZero, s |-> "", items |-> <<>>]
TomlInt(n) == [t |-> "int", n |-> RInt(n), s |-> "", items |-> <<>>]
TomlFloat(q) == [t |-> "float", n |-> q, s |-> "", items |-> <<>>]
TomlStr(s) == [t |-> "str", n |-> RZero, s |-> s, items |-> <<>>]
TomlList(items) == [t |-> "list", n |-> RZero, s |-> "", items |-> items]

\* isinstance(x, (int, float))
IsIntOrFloat(x) == x.t \in {"int", "float"}

\* x <= 0 raises TypeError when x is a string or a list
Unorderable(x) == ~IsIntOrFloat(x)

\* x <= 0 and a >= b on numbers
LeZero(x) == RLe(x.n, RZero)
Ge(a, b) == RLe(b.n, a.n)

\* self.log_name.strip() == ""
Blank(x) == x.s \in {"", " "}

\* lines 112-116: not a list of two lists of two items
BadFormat(b) ==
    \/ b.t # "list"
    \/ Len(b.items) # 2
    \/ \E k \in DOMAIN b.items :
          b.items[k].t # "list" \/ Len(b.items[k].items) # 2

Raise(exc, msg) == [raised |-> exc, msg |-> msg]

\* lines 109-128: the checks on borders
validate_borders(self) ==
    IF self.borders.t = "none"
    THEN Raise("ValueError", "Missing required config entry: geometry.borders")
    ELSE IF BadFormat(self.borders)
    THEN Raise("ValueError", "geometry.borders must have format")
    ELSE
      LET x_min == self.borders.items[1].items[1]
          x_max == self.borders.items[1].items[2]
          y_min == self.borders.items[2].items[1]
          y_max == self.borders.items[2].items[2]
      IN  IF ~(IsIntOrFloat(x_min) /\ IsIntOrFloat(x_max))
          THEN Raise("ValueError", "geometry.borders x-limits must be numbers")
          ELSE IF ~(IsIntOrFloat(y_min) /\ IsIntOrFloat(y_max))
          THEN Raise("ValueError", "geometry.borders y-limits must be numbers")
          ELSE IF Ge(x_min, x_max) \/ Ge(y_min, y_max)
          THEN Raise("ValueError", "geometry.borders must satisfy x_min < x_max and y_min < y_max")
          ELSE Raise("", "")

\* lines 81-107, then the checks on borders: the first check that fails
\* raises
validate(self) ==
    IF self.mesh_file.t = "none"
    THEN Raise("ValueError", "Missing required config entry: meshFile")
    ELSE IF self.n_steps.t = "none"
    THEN Raise("ValueError", "Missing required config entry: nSteps")
    ELSE IF self.t_end.t = "none"
    THEN Raise("ValueError", "Missing required config entry: tEnd")
    ELSE IF Unorderable(self.n_steps)
    THEN Raise("TypeError", "'<=' not supported")
    ELSE IF LeZero(self.n_steps)
    THEN Raise("ValueError", "nSteps must be > 0")
    ELSE IF self.n_steps.t # "int"
    THEN Raise("ValueError", "nSteps must be an integer")
    ELSE IF Unorderable(self.t_end)
    THEN Raise("TypeError", "'<=' not supported")
    ELSE IF LeZero(self.t_end)
    THEN Raise("ValueError", "tEnd must be > 0")
    ELSE IF self.log_name.t # "none"
            /\ (self.log_name.t # "str" \/ Blank(self.log_name))
    THEN Raise("ValueError", "logName must be a non-empty string")
    ELSE validate_borders(self)

\* lines 55-62: the attributes read from the parsed file
Extract(data) ==
    [mesh_file |-> data.meshName,
     borders |-> data.borders,
     n_steps |-> data.nSteps,
     t_end |-> data.tEnd,
     write_frequency |-> data.writeFrequency,
     log_name |-> IF data.logName.t = "none" THEN TomlStr("logfile")
                  ELSE data.logName]

\* Config(filename) on a file that exists and parses to data: what it raised
\* and the Config it returned, if any; line 67 gives dt
ConfigInit(data) ==
    LET self == Extract(data)
        r == validate(self)
    IN  IF r.raised # ""
        THEN [raised |-> r.raised, msg |-> r.msg, obj |-> <<>>]
        ELSE [raised |-> "", msg |-> "",
              obj |-> [mesh_file |-> self.mesh_file,
                       borders |-> self.borders,
                       n_steps |-> self.n_steps,
                       t_end |-> self.t_end,
                       write_frequency |-> self.write_frequency,
                       log_name |-> self.log_name,
                       dt |-> RDiv(self.t_end.n, self.n_steps.n)]]

(***************************************************************************)
(* State.                                                                  *)
(***************************************************************************)
VARIABLES
    cells,             \* Mesh.cells
    neighbors,         \* cell id -> Cell.neighbors
    edge_to_neighbor,  \* cell id -> Triangle.edge_to_neighbor (NoAttr if none)
    passed,            \* history: ids whose compute_neighbors has run
    nbrhist,           \* history: per cell, the number of compute_neighbors
                       \* calls and what the first one left
    dt,                \* Simulation.dt
    u,                 \* Simulation.u
    u_new,             \* Simulation.u_new
    hist,              \* history: the last operation and the scenario set up
    pc,                \* where run() stands
    run,               \* run()'s arguments and locals
    rendered,          \* history: what plot_solution was handed, in order
    calls,             \* history: the calls run() has made, in order
    fargs,             \* arguments of a call of flux / flux_contribution
    fres,              \* its return value
    fishing_cells,     \* Simulation.fishing_cells (NoCache until first set)
    oil,               \* what oil_in_fishing_ground() last returned or raised
    tri,               \* a Triangle under construction or constructed
    got,               \* what the last attribute access on it gave
    file,              \* what the mesh reader gives for the file name
    mesh,              \* the Mesh the constructor produced, or what it raised
    toml,              \* the parsed configuration file
    config,            \* the Config the constructor produced, or what it raised
    main               \* where run_single_config stands, and what it raised

meshvars == <<cells, neighbors, edge_to_neighbor, passed, nbrhist>>
simvars == <<dt, u, u_new, hist>>
runvars == <<pc, run, rendered, calls>>
fluxvars == <<fargs, fres>>
fishvars == <<fishing_cells, oil>>
trivars == <<tri, got>>
readvars == <<file, mesh>>
cfgvars == <<toml, config, main>>
extvars == <<fishvars, trivars, readvars, cfgvars>>
vars == <<meshvars, simvars, runvars, fluxvars, extvars>>

NoHist ==
    [last |-> "none", scen |-> "none", src |-> None, steps |-> 0,
     pre |-> <<>>, nops |-> 0, runs |-> 0, rect |-> <<>>]
NoRun == [t_end |-> RZero, writeFrequency |-> <<>>, do_plot |-> FALSE,
          n_steps |-> 0, step |-> 0, started |-> 0, completed |-> 0,
          u0 |-> <<>>]

NoMesh ==
    /\ cells = <<>> /\ neighbors = <<>> /\ edge_to_neighbor = <<>>
    /\ passed = {} /\ nbrhist = <<>>
NoSim ==
    /\ dt = ROne /\ u = <<>> /\ u_new = <<>> /\ hist = NoHist
    /\ pc = "none" /\ run = NoRun /\ rendered = <<>> /\ calls = <<>>
NoFlux == fargs = <<>> /\ fres = <<>>
\* a constructor that starts the cache empty
FreshCacheEmpty == <<>>

\* Simulation.__init__ sets no fishing_cells attribute
FreshCache == NoCache

NoFish == fishing_cells = FreshCache /\ oil = <<>>
NoTri == tri = <<>> /\ got = <<>>
NoRead == file = <<>> /\ mesh = <<>>
NoCfg == toml = <<>> /\ config = <<>> /\ main = <<>>

(***************************************************************************)
(* Adjacency specification: any mesh of the family, then adjacency passes. *)
(***************************************************************************)
NbrCandidates ==
    {Triangle(<<0, 1, 2>>), Triangle(<<1, 2, 3>>), Triangle(<<3, 1, 2>>),
     Triangle(<<0, 0, 1>>), Triangle(<<2, 3, 4>>),
     TopoTriangle(<<0, 1, 2>>), TopoTriangle(<<2, 1, 3>>),
     Line(<<0, 1>>), Line(<<2, 1>>), Line(<<3, 4>>)}

\* Cell.__init__ (neighbors = []) and Triangle.__init__
Constructed(cs) ==
    /\ cells = cs
    /\ neighbors = [i \in Ids(cs) |-> <<>>]
    /\ edge_to_neighbor = [i \in Ids(cs) |-> FreshEdges(cs[i])]
    /\ passed = {} /\ nbrhist = <<>>

NbrInit ==
    /\ \E cs \in MeshesOver(NbrCandidates, MaxNbrCells) : Constructed(cs)
    /\ NoSim /\ NoFlux /\ NoFish /\ NoTri /\ NoRead /\ NoCfg

\* the neighbor state cell i holds now
SelfState(i) ==
    [neighbors |-> neighbors[i], edge_to_neighbor |-> edge_to_neighbor[i]]

\* one cell's compute_neighbors against the whole cell list
CellComputeNeighbors(i) ==
    LET r == compute_neighbors(cells, i, CellList(cells), SelfState(i))
    IN  /\ neighbors' = [neighbors EXCEPT ![i] = r.neighbors]
        /\ edge_to_neighbor' =
               [edge_to_neighbor EXCEPT ![i] = r.edge_to_neighbor]
        /\ passed' = passed \cup {i}
        /\ UNCHANGED <<cells, nbrhist, simvars, runvars, fluxvars, extvars>>

\* the lists Mesh.computeNeighbors leaves: every cell, against the whole list
AllNeighbors(cs) ==
    [i \in Ids(cs) |->
        compute_neighbors(cs, i, CellList(cs), FreshState(cs[i])).neighbors]
AllEdges(cs) ==
    [i \in Ids(cs) |->
        compute_neighbors(cs, i, CellList(cs),
                          FreshState(cs[i])).edge_to_neighbor]

\* Mesh.computeNeighbors
computeNeighbors ==
    /\ neighbors' =
           [i \in Ids(cells) |->
               compute_neighbors(cells, i, CellList(cells),
                                 SelfState(i)).neighbors]
    /\ edge_to_neighbor' =
           [i \in Ids(cells) |->
               compute_neighbors(cells, i, CellList(cells),
                                 SelfState(i)).edge_to_neighbor]
    /\ passed' = Ids(cells)
    /\ UNCHANGED <<cells, nbrhist, simvars, runvars, fluxvars, extvars>>

NbrCell == \E i \in Ids(cells) : CellComputeNeighbors(i)

NbrNext == computeNeighbors \/ NbrCell

SpecNbr == NbrInit /\ [][NbrNext]_vars

\* Meshes as a mesh generator writes them: geometry Triangles and Lines with
\* distinct vertex ids, no two cells on the same vertex set, and no vertex
\* pair shared by more than two Triangles.
MeshCandidates ==
    {Triangle(<<0, 1, 2>>), Triangle(<<1, 2, 3>>), Triangle(<<3, 1, 4>>),
     Triangle(<<2, 0, 1>>), Line(<<0, 1>>), Line(<<2, 1>>), Line(<<3, 4>>),
     Line(<<0, 2>>)}

Manifold(cs) ==
    /\ \A i, j \in Ids(cs) : i # j => PointSet(cs[i]) # PointSet(cs[j])
    /\ \A i, j, l \in Ids(cs) :
          (/\ Cardinality({i, j, l}) = 3
           /\ IsTriangle(cs[i]) /\ IsTriangle(cs[j]) /\ IsTriangle(cs[l]))
          => Cardinality(PointSet(cs[i]) \cap PointSet(cs[j])
                         \cap PointSet(cs[l])) < 2

MeshNbrInit ==
    /\ \E cs \in MeshesOver(MeshCandidates, MaxNbrCells) :
          Manifold(cs) /\ Constructed(cs)
    /\ NoSim /\ NoFlux /\ NoFish /\ NoTri /\ NoRead /\ NoCfg

SpecMeshNbr == MeshNbrInit /\ [][NbrNext]_vars

(***************************************************************************)
(* Repetition specification: adjacency passes run again and again on a     *)
(* mesh that does not change, and the history keeps, per cell, the number  *)
(* of calls and what the first call left.                                  *)
(***************************************************************************)
\* largest number of compute_neighbors calls on one cell
MaxPasses == 2

RepeatCandidates ==
    {Triangle(<<0, 1, 2>>), Triangle(<<3, 1, 2>>), Triangle(<<0, 0, 1>>),
     TopoTriangle(<<2, 1, 3>>), Line(<<2, 1>>)}

RepeatInit ==
    /\ \E cs \in MeshesOver(RepeatCandidates, MaxNbrCells) :
          /\ cells = cs
          /\ neighbors = [i \in Ids(cs) |-> <<>>]
          /\ edge_to_neighbor = [i \in Ids(cs) |-> FreshEdges(cs[i])]
          /\ passed = {}
          /\ nbrhist = [i \in Ids(cs) |-> [count |-> 0, first |-> <<>>]]
    /\ NoSim /\ NoFlux /\ NoFish /\ NoTri /\ NoRead /\ NoCfg

\* the history after a call on cell i that left r
Counted(h, r) ==
    [count |-> h.count + 1, first |-> IF h.count = 0 THEN r ELSE h.first]

\* cell i's compute_neighbors against the whole cell list, once more
RepeatCell(i) ==
    /\ nbrhist[i].count < MaxPasses
    /\ \E r \in {compute_neighbors(cells, i, CellList(cells), SelfState(i))} :
          /\ neighbors' = [neighbors EXCEPT ![i] = r.neighbors]
          /\ edge_to_neighbor' =
                 [edge_to_neighbor EXCEPT ![i] = r.edge_to_neighbor]
          /\ nbrhist' = [nbrhist EXCEPT ![i] = Counted(@, r)]
    /\ passed' = passed \cup {i}
    /\ UNCHANGED <<cells, simvars, runvars, fluxvars, extvars>>

\* Mesh.computeNeighbors, once more
RepeatMesh ==
    /\ \A i \in Ids(cells) : nbrhist[i].count < MaxPasses
    /\ \E rs \in {[i \in Ids(cells) |->
                      compute_neighbors(cells, i, CellList(cells),
                                        SelfState(i))]} :
          /\ neighbors' = [i \in Ids(cells) |-> rs[i].neighbors]
          /\ edge_to_neighbor' =
                 [i \in Ids(cells) |-> rs[i].edge_to_neighbor]
          /\ nbrhist' = [i \in Ids(cells) |-> Counted(nbrhist[i], rs[i])]
    /\ passed' = Ids(cells)
    /\ UNCHANGED <<cells, simvars, runvars, fluxvars, extvars>>

RepeatAnyCell == \E i \in Ids(cells) : RepeatCell(i)

RepeatNext == RepeatMesh \/ RepeatAnyCell

SpecRepeat == RepeatInit /\ [][RepeatNext]_vars

(***************************************************************************)
(* Simulation specification: a mesh read from a file, its adjacency pass   *)
(* run (as main.py does) or not (as the test fixture leaves it), a         *)
(* Simulation constructed on it; then the caller writes u, sets the        *)
(* initial state, or steps.                                                *)
(***************************************************************************)
\* Triangles 0-2-1 (area 1/4), 0-2-3 and 2-3-4 (area 1/16) lie side by side;
\* 1-2-4 is collinear (area 0); 0-1 is a boundary edge of 0-2-1.
SimCandidates ==
    {Triangle(<<0, 2, 1>>), Triangle(<<0, 2, 3>>), Triangle(<<2, 3, 4>>),
     Triangle(<<1, 2, 4>>), Line(<<0, 1>>)}

SimMeshes ==
    {cs \in MeshesOver(SimCandidates, MaxCells) :
        \A i, j \in Ids(cs) : i # j => cs[i] # cs[j]}

DtValues == {<<1, 2>>, <<1, 4>>}

Zeros(cs) == [i \in Ids(cs) |-> RZero]

\* Mesh(filename), optionally mesh.computeNeighbors(), Simulation(mesh, dt)
SimConstructed(cs, adj, d) ==
    /\ cells = cs
    /\ neighbors = IF adj THEN AllNeighbors(cs) ELSE [i \in Ids(cs) |-> <<>>]
    /\ edge_to_neighbor =
           IF adj THEN AllEdges(cs) ELSE [i \in Ids(cs) |-> FreshEdges(cs[i])]
    /\ passed = IF adj THEN Ids(cs) ELSE {}
    /\ nbrhist = <<>>
    /\ dt = d
    /\ u = Zeros(cs)
    /\ u_new = Zeros(cs)
    /\ hist = NoHist
    /\ pc = "idle" /\ run = NoRun /\ rendered = <<>> /\ calls = <<>>

Init ==
    /\ \E cs \in SimMeshes, adj \in BOOLEAN, d \in DtValues :
          SimConstructed(cs, adj, d)
    /\ NoFlux /\ NoFish /\ NoTri /\ NoRead /\ NoCfg

\* largest number of operations on a Simulation in one behaviour
MaxOps == 2

CanOp == pc = "idle" /\ hist.nops < MaxOps

\* the caller's sim.u[:] = v
AssignUniform(v) ==
    /\ CanOp
    /\ u' = [i \in Ids(cells) |-> v]
    /\ hist' = [hist EXCEPT !.last = "assign",
                            !.scen = IF v = ROne THEN "ones" ELSE "zeros",
                            !.src = None, !.steps = 0, !.pre = <<>>,
                            !.nops = @ + 1]
    /\ UNCHANGED <<meshvars, dt, u_new, runvars, fluxvars, extvars>>

\* the caller's sim.u[:] = 0.0; sim.u[s] = 1.0
AssignSource(s) ==
    /\ CanOp
    /\ u' = [i \in Ids(cells) |-> IF i = s THEN ROne ELSE RZero]
    /\ hist' = [hist EXCEPT !.last = "assign", !.scen = "source",
                            !.src = s, !.steps = 0, !.pre = <<>>,
                            !.nops = @ + 1]
    /\ UNCHANGED <<meshvars, dt, u_new, runvars, fluxvars, extvars>>

\* arguments of set_initial_state: the defaults, and another centre and width
InitialStateArgs ==
    {<<DefaultXStart, DefaultSigma2>>, <<<<<<1, 2>>, <<1, 6>>>>, <<1, 25>>>>}

SetInitialState(x_start, sigma2) ==
    /\ CanOp
    /\ u' = set_initial_state(cells, u, x_start, sigma2)
    /\ hist' = [hist EXCEPT !.last = "set_initial_state", !.scen = "gauss",
                            !.src = None, !.steps = 0,
                            !.pre = <<x_start, sigma2>>, !.nops = @ + 1]
    /\ UNCHANGED <<meshvars, dt, u_new, runvars, fluxvars, extvars>>

\* sim.step()
Step ==
    /\ CanOp
    /\ \E r \in {StepResult(cells, neighbors, edge_to_neighbor, u, u_new, dt)} :
           /\ u' = r.u
           /\ u_new' = r.u_new
           /\ hist' = [hist EXCEPT
                          !.last = IF r.raised THEN "step_raised" ELSE "step",
                          !.steps = @ + 1, !.pre = u, !.nops = @ + 1]
    /\ UNCHANGED <<meshvars, dt, runvars, fluxvars, extvars>>

Assign ==
    \/ \E v \in {RZero, ROne} : AssignUniform(v)
    \/ \E s \in Ids(cells) : AssignSource(s)

SetInitial == \E a \in InitialStateArgs : SetInitialState(a[1], a[2])

Next == Assign \/ SetInitial \/ Step

Spec == Init /\ [][Next]_vars

(***************************************************************************)
(* Boundary specification: meshes as a mesh generator writes them with     *)
(* Boundary Segments, adjacency computed as main.py does, then the same    *)
(* operations on the Simulation.                                           *)
(***************************************************************************)
MeshOf(seq) == [i \in 0..(Len(seq) - 1) |-> seq[i + 1]]

\* 0-2-1 with a Line on its edge 0-2 or 0-1; 0-2-1 between 0-2-3 and 1-2-5
\* with Lines on 0-1 and on the interior edge 0-2; 0-2-3 next to 2-3-4;
\* 0-2-1 and 0-2-3 with a Line on the edge they share
EdgeMeshes ==
    {MeshOf(<<Triangle(<<0, 2, 1>>), Line(<<0, 2>>)>>),
     MeshOf(<<Triangle(<<0, 2, 1>>), Line(<<0, 1>>)>>),
     MeshOf(<<Line(<<2, 1>>), Line(<<0, 2>>), Triangle(<<0, 2, 1>>)>>),
     MeshOf(<<Triangle(<<0, 2, 1>>), Triangle(<<0, 2, 3>>),
              Triangle(<<1, 2, 5>>), Line(<<0, 1>>), Line(<<0, 2>>)>>),
     MeshOf(<<Triangle(<<0, 2, 3>>), Triangle(<<2, 3, 4>>)>>),
     MeshOf(<<Triangle(<<0, 2, 1>>), Triangle(<<0, 2, 3>>), Line(<<0, 2>>)>>)}

EdgeInit ==
    /\ \E cs \in EdgeMeshes, d \in DtValues : SimConstructed(cs, TRUE, d)
    /\ NoFlux /\ NoFish /\ NoTri /\ NoRead /\ NoCfg

SpecEdge == EdgeInit /\ [][Next]_vars

(***************************************************************************)
(* Run specification: Simulation.run, which calls set_initial_state, then  *)
(* step() n_steps times and, between steps, the external renderer          *)
(* plot_solution.  run() stands at "loop" (top of the for loop), at "swap" *)
(* (inside step(): the scratch array is written, the swap of line 113 is   *)
(* still to come), at "plot" (step() has returned, plot_solution is about  *)
(* to be called) or at "raised" (step() raised).                           *)
(***************************************************************************)
\* largest number of run() calls in one behaviour
MaxRuns == 1
\* largest number of cells of a mesh run() is called on
MaxRunCells == 2

\* run() is called on a simulation whose dt is RunDt; t_end / dt is then
\* -1/2, 1/2, 3/2 or 3
RunDt == <<1, 4>>
TEndValues == {<<-1, 8>>, <<1, 8>>, <<3, 8>>, <<3, 4>>}
\* writeFrequency: <<>> is None, <<n>> the integer n
WriteFrequencies == {<<>>, <<0>>, <<1>>, <<2>>}

\* int(x): truncation toward zero
Trunc(q) == IF q[1] >= 0 THEN q[1] \div q[2] ELSE -((-q[1]) \div q[2])

\* a step count of one too many
RunStepCountInclusive(t_end, dt_) == Trunc(RDiv(t_end, dt_)) + 1

\* line 132: n_steps = int(t_end / self.dt)
RunStepCount(t_end, dt_) == Trunc(RDiv(t_end, dt_))

\* line 126
DoPlot(writeFrequency) == writeFrequency # <<>> /\ writeFrequency[1] > 0

\* line 137
PlotDue(do_plot, step, writeFrequency) ==
    do_plot /\ step % writeFrequency[1] = 0

\* a renderer handed the scratch array
HandedScratch(uu, un) == un

\* line 140: the array plot_solution is handed
HandedArray(uu, un) == uu

\* lines 123-132
RunBegin(t_end, writeFrequency) ==
    /\ pc = "idle" /\ hist.runs < MaxRuns
    /\ u' = set_initial_state(cells, u, DefaultXStart, DefaultSigma2)
    /\ run' = [t_end |-> t_end, writeFrequency |-> writeFrequency,
               do_plot |-> DoPlot(writeFrequency),
               n_steps |-> RunStepCount(t_end, dt),
               step |-> 0, started |-> 0, completed |-> 0, u0 |-> u]
    /\ calls' = <<"set_initial_state">>
    /\ rendered' = <<>>
    /\ pc' = "loop"
    /\ hist' = [hist EXCEPT !.last = "run_begin", !.scen = "gauss",
                            !.src = None, !.steps = 0, !.pre = <<>>]
    /\ UNCHANGED <<meshvars, dt, u_new, fluxvars, extvars>>

\* line 134, step() up to its last line: the scratch array holds the new
\* values, self.u the old ones
RunSweep ==
    /\ pc = "loop" /\ run.step < run.n_steps
    /\ \E r \in {StepResult(cells, neighbors, edge_to_neighbor, u, u_new, dt)} :
           /\ u_new' = IF r.raised THEN r.u_new ELSE r.u
           /\ pc' = IF r.raised THEN "raised" ELSE "swap"
    /\ run' = [run EXCEPT !.started = @ + 1]
    /\ UNCHANGED <<meshvars, dt, u, hist, rendered, calls, fluxvars, extvars>>

\* line 113, the end of step(), and the test of line 137
RunSwap ==
    /\ pc = "swap"
    /\ u' = u_new
    /\ u_new' = u
    /\ calls' = Append(calls, "step")
    /\ IF PlotDue(run.do_plot, run.step, run.writeFrequency)
       THEN /\ pc' = "plot"
            /\ run' = [run EXCEPT !.completed = @ + 1]
       ELSE /\ pc' = "loop"
            /\ run' = [run EXCEPT !.completed = @ + 1, !.step = @ + 1]
    /\ hist' = [hist EXCEPT !.last = "step", !.steps = @ + 1, !.pre = u]
    /\ UNCHANGED <<meshvars, dt, rendered, fluxvars, extvars>>

\* lines 138-143: plot_solution(self.mesh, self.u, ...)
RunPlot ==
    /\ pc = "plot"
    /\ rendered' = Append(rendered,
                          [step |-> run.step, u |-> HandedArray(u, u_new),
                           started |-> run.started,
                           completed |-> run.completed])
    /\ run' = [run EXCEPT !.step = @ + 1]
    /\ pc' = "loop"
    /\ UNCHANGED <<meshvars, simvars, calls, fluxvars, extvars>>

\* the loop is exhausted: run() returns
RunEnd ==
    /\ pc = "loop" /\ run.step >= run.n_steps
    /\ pc' = "idle"
    /\ hist' = [hist EXCEPT !.last = "run", !.runs = @ + 1]
    /\ UNCHANGED <<meshvars, dt, u, u_new, run, rendered, calls, fluxvars, extvars>>

\* the caller's sim.u[:] = 1.0 before run()
AssignOnes == hist.runs = 0 /\ hist.nops = 0 /\ AssignUniform(ROne)

RunCall == \E t \in TEndValues, w \in WriteFrequencies : RunBegin(t, w)

RunNext == AssignOnes \/ RunCall \/ RunSweep \/ RunSwap \/ RunPlot \/ RunEnd

RunInit == Init /\ dt = RunDt /\ NumCells(cells) <= MaxRunCells

SpecRun == RunInit /\ [][RunNext]_vars

(***************************************************************************)
(* Diagnostic specification: on a Simulation whose u is assigned or set by *)
(* set_initial_state, find_fishing_ground_cells is called with rectangles  *)
(* and oil_in_fishing_ground queried at any time.                          *)
(***************************************************************************)
\* the rectangle of the configuration example, one with centroids on its
\* sides, one that is a segment through two centroids
FishingGrounds ==
    {<<<<RZero, <<9, 20>>>>, <<RZero, <<1, 5>>>>>>,
     <<<<RZero, <<1, 3>>>>, <<RZero, RHalf>>>>,
     <<<<<<1, 3>>, <<2, 3>>>>, <<<<1, 4>>, <<1, 4>>>>>>}

FindFishingGroundCells(borders) ==
    /\ CanOp
    /\ fishing_cells' = find_fishing_ground_cells(cells, borders)
    /\ hist' = [hist EXCEPT !.last = "find", !.nops = @ + 1,
                            !.rect = borders]
    /\ UNCHANGED <<meshvars, dt, u, u_new, runvars, fluxvars, oil,
                   trivars, readvars, cfgvars>>

\* oil_in_fishing_ground(): AttributeError while fishing_cells was never set
OilInFishingGround ==
    /\ pc = "idle"
    /\ oil' = IF fishing_cells = NoCache
              THEN [raised |-> "AttributeError", u |-> u,
                    fishing_cells |-> fishing_cells,
                    found |-> hist.rect # <<>>, stepped |-> hist.steps]
              ELSE [raised |-> "",
                    val |-> oil_in_fishing_ground(cells, u, fishing_cells),
                    u |-> u, fishing_cells |-> fishing_cells,
                    found |-> hist.rect # <<>>, stepped |-> hist.steps]
    /\ oil' # oil
    /\ UNCHANGED <<meshvars, simvars, runvars, fluxvars, fishing_cells,
                   trivars, readvars, cfgvars>>

FishInit == Init /\ dt = RunDt

FishFind == \E b \in FishingGrounds : FindFishingGroundCells(b)

FishSetValues ==
    \/ AssignUniform(ROne)
    \/ SetInitialState(DefaultXStart, DefaultSigma2)

FishNext == FishSetValues \/ Step \/ FishFind \/ OilInFishingGround

SpecFish == FishInit /\ [][FishNext]_vars

(***************************************************************************)
(* Triangle specification: a Triangle is constructed from a list of vertex *)
(* ids, with or without the point table; if that succeeds its attributes   *)
(* are read and compute_neighbors is run on it.                            *)
(***************************************************************************)
\* longest list of vertex ids handed to the constructor
MaxPointIds == 4

\* lists of three ids over the whole point table, shorter and longer lists
\* over points 0..2
PointIdLists ==
    [1..3 -> DOMAIN points] \cup
    UNION {[1..n -> 0..2] : n \in (0..MaxPointIds) \ {3}}

TriInit ==
    /\ tri \in [point_ids : PointIdLists, with_points : BOOLEAN,
                 built : {FALSE}, scanned : {FALSE}, raised : {""},
                 obj : {<<>>}]
    /\ got = <<>>
    /\ NoMesh /\ NoSim /\ NoFlux /\ NoFish /\ NoRead /\ NoCfg

\* Triangle(point_ids, 0, points)
TriConstruct ==
    /\ ~tri.built
    /\ LET r == TriangleInit(tri.point_ids, 0, tri.with_points)
       IN  tri' = [tri EXCEPT !.built = TRUE, !.raised = r.raised,
                              !.obj = r.obj]
    /\ UNCHANGED <<meshvars, simvars, runvars, fluxvars, fishvars, got,
                   readvars, cfgvars>>

\* reading one attribute of the constructed Triangle
TriAccess(a) ==
    /\ tri.built /\ tri.raised = ""
    /\ got' = [attr |-> a, raised |-> GetAttr(tri.obj, a).raised,
               val |-> GetAttr(tri.obj, a).val, scanned |-> tri.scanned]
    /\ UNCHANGED <<meshvars, simvars, runvars, fluxvars, fishvars, tri,
                   readvars, cfgvars>>

\* the cells the Triangle is scanned against: itself, a Triangle and a Line
TriCellList(t) ==
    (0 :> [kind |-> t.kind, point_ids |-> t.point_ids]) @@
    (1 :> Triangle(<<0, 1, 2>>)) @@ (2 :> Line(<<1, 2>>))

\* tri.compute_neighbors(cell_list)
TriComputeNeighbors ==
    /\ tri.built /\ tri.raised = ""
    /\ LET cs == TriCellList(tri.obj)
           r == compute_neighbors(cs, 0, CellList(cs),
                                  [neighbors |-> tri.obj.neighbors,
                                   edge_to_neighbor |->
                                       tri.obj.edge_to_neighbor])
       IN  tri' = [tri EXCEPT !.scanned = TRUE,
                              !.obj.neighbors = r.neighbors,
                              !.obj.edge_to_neighbor = r.edge_to_neighbor]
    /\ UNCHANGED <<meshvars, simvars, runvars, fluxvars, fishvars, got,
                   readvars, cfgvars>>

TriRead == \E a \in Attributes : TriAccess(a)

TriNext == TriConstruct \/ TriRead \/ TriComputeNeighbors

SpecTri == TriInit /\ [][TriNext]_vars

(***************************************************************************)
(* Reading specification: the reader's answer for a file is drawn, then    *)
(* Mesh(filename) is called once.                                          *)
(***************************************************************************)
\* largest number of blocks in a file
MaxBlocks == 3

BlockCandidates ==
    {[type |-> "vertex", data |-> <<<<0>>, <<1>>>>],
     [type |-> "line", data |-> <<<<0, 1>>>>],
     [type |-> "line", data |-> <<<<2, 1>>, <<3, 4>>>>],
     [type |-> "triangle", data |-> <<<<0, 1, 2>>>>],
     [type |-> "triangle", data |-> <<<<0, 2, 1>>, <<0, 2, 3>>>>],
     [type |-> "quad", data |-> <<<<0, 1, 3, 2>>>>],
     [type |-> "triangle6", data |-> <<<<0, 1, 2, 3, 4, 5>>, <<0, 1, 2, 3, 4, 6>>>>]}

\* meshio.read returns, or raises one of these
ReaderOutcomes == {"ok", "Exception", "OSError", "ReadError"}

ReadInit ==
    /\ file \in [outcome : ReaderOutcomes,
                  blocks : UNION {[1..n -> BlockCandidates] : n \in 0..MaxBlocks}]
    /\ mesh = <<>>
    /\ NoMesh /\ NoSim /\ NoFlux /\ NoFish /\ NoTri /\ NoCfg

\* mesh = Mesh(filename)
ReadMesh ==
    /\ mesh = <<>>
    /\ mesh' = MeshInit(file)
    /\ UNCHANGED <<meshvars, simvars, runvars, fluxvars, fishvars, trivars,
                   file, cfgvars>>

ReadNext == ReadMesh

SpecRead == ReadInit /\ [][ReadNext]_vars

(***************************************************************************)
(* Configuration specification: a parsed configuration file is drawn, then *)
(* Config(filename) is called once.                                        *)
(***************************************************************************)
Pair(a, b) == TomlList(<<a, b>>)

MeshNameValues == {Absent, TomlStr("bay.msh")}
NStepsValues ==
    {Absent, TomlInt(-1), TomlInt(0), TomlInt(2), TomlInt(4),
     TomlFloat(<<5, 2>>), TomlFloat(<<2, 1>>), TomlFloat(<<-3, 2>>),
     TomlStr("10")}
TEndConfigValues ==
    {Absent, TomlInt(0), TomlInt(1), TomlFloat(<<1, 2>>), TomlFloat(<<-1, 2>>), TomlStr("1.0")}
BordersValues ==
    {Absent, TomlStr("0,1,0,1"),
     TomlList(<<Pair(TomlInt(0), TomlInt(1))>>),
     Pair(TomlInt(0), TomlInt(1)),
     Pair(TomlList(<<TomlInt(0), TomlInt(1), TomlInt(2)>>), Pair(TomlInt(0), TomlInt(1))),
     Pair(Pair(TomlStr("a"), TomlInt(1)), Pair(TomlInt(0), TomlInt(1))),
     Pair(Pair(TomlInt(0), TomlInt(1)), Pair(TomlInt(0), TomlStr("b"))),
     Pair(Pair(TomlFloat(<<0, 1>>), TomlFloat(<<9, 20>>)),
          Pair(TomlFloat(<<0, 1>>), TomlFloat(<<1, 5>>))),
     Pair(Pair(TomlInt(1), TomlInt(0)), Pair(TomlInt(0), TomlInt(1))),
     Pair(Pair(TomlInt(0), TomlInt(1)), Pair(TomlInt(1), TomlInt(1)))}
LogNameValues == {Absent, TomlStr("run1"), TomlStr(" "), TomlInt(3)}
WriteFrequencyValues == {Absent, TomlInt(10)}

ConfigFiles ==
    [meshName : MeshNameValues, nSteps : NStepsValues,
     tEnd : TEndConfigValues, borders : BordersValues,
     logName : LogNameValues, writeFrequency : WriteFrequencyValues]

CfgInit ==
    /\ toml \in ConfigFiles
    /\ config = <<>> /\ main = <<>>
    /\ NoMesh /\ NoSim /\ NoFlux /\ NoFish /\ NoTri /\ NoRead

\* config = Config(filename)
ConfigConstruct ==
    /\ config = <<>>
    /\ config' = ConfigInit(toml)
    /\ UNCHANGED <<meshvars, simvars, runvars, fluxvars, fishvars, trivars,
                   readvars, toml, main>>

CfgNext == ConfigConstruct

SpecCfg == CfgInit /\ [][CfgNext]_vars

(***************************************************************************)
(* Main specification: run_single_config on one configuration file and one *)
(* mesh file, statement by statement.                                      *)
(***************************************************************************)
\* a run that goes on after an exception
AbortNever(raised, next) == next

\* an exception raised by a callee leaves run_single_config
Abort(raised, next) == IF raised # "" THEN "aborted" ELSE next

MainConfigs ==
    {d \in ConfigFiles :
        /\ d.logName = Absent /\ d.writeFrequency = Absent
        /\ d.borders \in
              {Absent,
               Pair(Pair(TomlFloat(<<0, 1>>), TomlFloat(<<9, 20>>)),
                    Pair(TomlFloat(<<0, 1>>), TomlFloat(<<1, 5>>)))}}

MainFiles ==
    [outcome : {"ok", "OSError"},
     blocks : {<<>>,
               <<[type |-> "line", data |-> <<<<0, 1>>>>],
                 [type |-> "triangle",
                  data |-> <<<<0, 2, 1>>, <<0, 2, 3>>>>]>>}]

MainInit ==
    /\ toml \in MainConfigs /\ config = <<>>
    /\ file \in MainFiles /\ mesh = <<>>
    /\ main = [pc |-> "config", raised |-> ""]
    /\ NoMesh /\ NoSim /\ NoFlux /\ NoFish /\ NoTri

\* Mesh.cells as the cell table of the model
CellsOf(m) ==
    [i \in 0..(Len(m.cells) - 1) |->
        [kind |-> m.cells[i + 1].kind, point_ids |-> m.cells[i + 1].point_ids]]

\* line 61: config = Config(str(config_path))
MainConfig ==
    /\ main.pc = "config"
    /\ \E r \in {ConfigInit(toml)} :
          /\ config' = r
          /\ main' = [pc |-> Abort(r.raised, "folder"), raised |-> r.raised]
    /\ UNCHANGED <<meshvars, simvars, runvars, fluxvars, fishvars, trivars,
                   readvars, toml>>

\* lines 64-72: the result folder; FileExistsError when it exists and does
\* not look like a result folder
MainFolder(refused) ==
    /\ main.pc = "folder"
    /\ main' = IF refused
               THEN [pc |-> "aborted", raised |-> "FileExistsError"]
               ELSE [pc |-> "logger", raised |-> ""]
    /\ UNCHANGED <<meshvars, simvars, runvars, fluxvars, fishvars, trivars,
                   readvars, toml, config>>

\* lines 75-92: the logger is set up and the parameters are logged
MainLogger ==
    /\ main.pc = "logger"
    /\ main' = [main EXCEPT !.pc = "mesh"]
    /\ UNCHANGED <<meshvars, simvars, runvars, fluxvars, fishvars, trivars,
                   readvars, toml, config>>

\* line 95: mesh = Mesh(config.mesh_file)
MainMesh ==
    /\ main.pc = "mesh"
    /\ \E r \in {MeshInit(file)} :
          /\ mesh' = r
          /\ main' = [pc |-> Abort(r.raised, "neighbors"),
                      raised |-> r.raised]
          /\ IF r.raised # ""
             THEN UNCHANGED <<cells, neighbors, edge_to_neighbor>>
             ELSE /\ cells' = CellsOf(r.obj)
                  /\ neighbors' = [i \in Ids(CellsOf(r.obj)) |-> <<>>]
                  /\ edge_to_neighbor' =
                         [i \in Ids(CellsOf(r.obj)) |->
                             FreshEdges(CellsOf(r.obj)[i])]
    /\ UNCHANGED <<passed, nbrhist, simvars, runvars, fluxvars, fishvars,
                   trivars, file, toml, config>>

\* line 96: mesh.computeNeighbors()
MainNeighbors ==
    /\ main.pc = "neighbors"
    /\ neighbors' =
           [i \in Ids(cells) |->
               compute_neighbors(cells, i, CellList(cells),
                                 SelfState(i)).neighbors]
    /\ edge_to_neighbor' =
           [i \in Ids(cells) |->
               compute_neighbors(cells, i, CellList(cells),
                                 SelfState(i)).edge_to_neighbor]
    /\ passed' = Ids(cells)
    /\ main' = [main EXCEPT !.pc = "sim"]
    /\ UNCHANGED <<cells, nbrhist, simvars, runvars, fluxvars, fishvars,
                   trivars, readvars, toml, config>>

\* line 106: sim = Simulation(mesh, config.dt, config.borders)
MainSimulation ==
    /\ main.pc = "sim"
    /\ dt' = config.obj.dt
    /\ u' = Zeros(cells)
    /\ u_new' = Zeros(cells)
    /\ main' = [main EXCEPT !.pc = "run"]
    /\ UNCHANGED <<meshvars, hist, runvars, fluxvars, fishvars, trivars,
                   readvars, toml, config>>

\* line 107: sim.run(config.t_end, writeFrequency=..., logger=logger);
\* Simulation.run takes (t_end, writeFrequency) and no logger, so the call
\* raises TypeError before the body of run is entered
MainRun ==
    /\ main.pc = "run"
    /\ main' = [pc |-> "aborted", raised |-> "TypeError"]
    /\ UNCHANGED <<meshvars, simvars, runvars, fluxvars, fishvars, trivars,
                   readvars, toml, config>>

MainFolderChecked == \E refused \in BOOLEAN : MainFolder(refused)

MainNext ==
    \/ MainConfig \/ MainFolderChecked \/ MainLogger \/ MainMesh
    \/ MainNeighbors \/ MainSimulation \/ MainRun

SpecMain == MainInit /\ [][MainNext]_vars

(***************************************************************************)
(* Flux specification: the arguments of one call are drawn, then flux or   *)
(* flux_contribution is applied to them.                                   *)
(***************************************************************************)
FluxValues == {<<-1, 1>>, RZero, <<2, 1>>, <<1, 2>>}
FluxNormals == {<<ROne, RZero>>, <<RZero, <<-1, 1>>>>, <<RHalf, RHalf>>}
FluxVelocities ==
    {VZero, <<<<3, 1>>, RZero>>, <<<<-3, 1>>, RZero>>, <<RZero, <<2, 1>>>>,
     <<<<-4, 1>>, ROne>>}
FluxAreas == {RHalf, <<4, 1>>}
FluxDts == {RHalf, <<1, 10>>}

FluxInit ==
    /\ fargs \in [a : FluxValues, b : FluxValues, normal : FluxNormals,
                  v_i : FluxVelocities, v_ngh : FluxVelocities,
                  area : FluxAreas, dt : FluxDts]
    /\ fres = <<>>
    /\ NoMesh /\ NoSim /\ NoFish /\ NoTri /\ NoRead /\ NoCfg

\* flux(a, b, normal, edge_velocity) with edge_velocity = v_i
CallFlux ==
    /\ fres = <<>>
    /\ fres' = [fn |-> "flux",
                val |-> flux(fargs.a, fargs.b, fargs.normal, fargs.v_i)]
    /\ UNCHANGED <<meshvars, simvars, runvars, fargs, extvars>>

\* flux_contribution(u_i = a, u_ngh = b, area, normal, v_i, v_ngh, dt)
CallFluxContribution ==
    /\ fres = <<>>
    /\ fres' = [fn |-> "flux_contribution",
                val |-> flux_contribution(fargs.a, fargs.b, fargs.area,
                                          fargs.normal, fargs.v_i,
                                          fargs.v_ngh, fargs.dt)]
    /\ UNCHANGED <<meshvars, simvars, runvars, fargs, extvars>>

FluxNext == CallFlux \/ CallFluxContribution

SpecFlux == FluxInit /\ [][FluxNext]_vars

(***************************************************************************)
(* Claims on the adjacency pass.                                           *)
(***************************************************************************)
Occurrences(s, x) == Cardinality({p \in DOMAIN s : s[p] = x})
Shared(A, B) == PointSet(cells[A]) \cap PointSet(cells[B])
Listed(A, B) == \E p \in DOMAIN neighbors[A] : neighbors[A][p] = B

C2_EdgeSlotForEveryNeighbor ==
    passed = Ids(cells) =>
      \A A \in Ids(cells) : HasEdgeAttr(cells[A]) =>
        \A k \in 0..2 :
          /\ \A B \in Ids(cells) :
                (Listed(A, B) /\ EdgeIds(cells[A], k) = Shared(A, B))
                => edge_to_neighbor[A][k + 1] = B
          /\ edge_to_neighbor[A][k + 1] = None =>
                ~\E B \in Ids(cells) :
                    B # A /\ EdgeIds(cells[A], k) = Shared(A, B)

\* the slots of cell A that hold a cell id
FilledSlots(A) == {k \in 0..2 : edge_to_neighbor[A][k + 1] # None}

RECURSIVE SumFrom(_, _)
SumFrom(f, i) ==
    IF i \notin DOMAIN f THEN RZero ELSE RAdd(f[i], SumFrom(f, i + 1))
\* u.sum()
Total(f) == SumFrom(f, 0)

\* C3: after any step() that returns, the value of every Line cell is exactly
\* 0, whatever u held before the step.
C3_BoundaryZero ==
    hist.last = "step" =>
        \A i \in Ids(cells) : IsLine(cells[i]) => u[i] = RZero

\* a step has returned on a state whose Line cell held a nonzero value
C3_Witness ==
    /\ hist.last = "step"
    /\ \E i \in Ids(cells) : IsLine(cells[i]) /\ hist.pre[i] # RZero

\* C4: with u = 0 everywhere but u[s] = 1.0, after one step() every cell that
\* is neither s nor listed in cells[s].neighbors is still exactly 0.
C4_SourceLocality ==
    (hist.scen = "source" /\ hist.last = "step" /\ hist.steps = 1) =>
        \A i \in Ids(cells) :
            (i # hist.src /\ ~Listed(hist.src, i)) => u[i] = RZero

\* one step from a single source on a mesh with adjacency: oil has reached a
\* neighbor of the source, and a cell next to that neighbor, which is not a
\* neighbor of the source, is there to stay at 0
C4_Witness ==
    /\ hist.scen = "source" /\ hist.last = "step" /\ hist.steps = 1
    /\ passed = Ids(cells)
    /\ \E j, i \in Ids(cells) :
          /\ Listed(hist.src, j) /\ u[j] # RZero
          /\ i # hist.src /\ ~Listed(hist.src, i) /\ Listed(j, i)

\* C5: from u uniformly 1.0 on a mesh whose adjacency has been computed, the
\* plain sum of u after N >= 1 consecutive step() calls is at most the sum
\* before the first of them.
C5_MassNonIncreasing ==
    (hist.scen = "ones" /\ hist.last = "step" /\ passed = Ids(cells)) =>
        RLe(Total(u), RInt(NumCells(cells)))

\* C10: set_initial_state(x_start, sigma2) leaves exp(-|centroid - x_start|^2
\* / sigma2) in every Triangle and 0 in every Line; so u >= 0 everywhere, and
\* with the defaults the largest u is at the Triangle whose centroid is
\* closest to (0.35, 0.45).
SqDistTo(c, x_start) ==
    LET m == compute_midpoint(c)
        ex == RSub(m[1], x_start[1])
        ey == RSub(m[2], x_start[2])
    IN  RAdd(RMul(ex, ex), RMul(ey, ey))

C10_InitialState ==
    hist.last = "set_initial_state" =>
        LET x_start == hist.pre[1]
            sigma2 == hist.pre[2]
        IN  /\ \A i \in Ids(cells) :
                  /\ IsTriangle(cells[i]) =>
                        u[i] = ExpNeg(RDiv(SqDistTo(cells[i], x_start), sigma2))
                  /\ IsLine(cells[i]) => u[i] = RZero
                  /\ RLe(RZero, u[i])
            /\ (x_start = <<<<7, 20>>, <<9, 20>>>> /\ sigma2 = <<1, 100>>) =>
                  \A i \in Ids(cells) :
                      (/\ IsTriangle(cells[i])
                       /\ \A j \in Ids(cells) :
                             IsTriangle(cells[j]) =>
                                 RLe(SqDistTo(cells[i], hist.pre[1]),
                                     SqDistTo(cells[j], hist.pre[1])))
                      => \A j \in Ids(cells) : RLe(u[j], u[i])

\* the default initial state on a mesh with a Line and two Triangles that
\* received different positive values
C10_Witness ==
    /\ hist.last = "set_initial_state"
    /\ hist.pre = <<DefaultXStart, DefaultSigma2>>
    /\ \E l, i, j \in Ids(cells) :
          /\ IsLine(cells[l])
          /\ IsTriangle(cells[i]) /\ IsTriangle(cells[j])
          /\ RLt(RZero, u[i]) /\ RLt(u[i], u[j])

(***************************************************************************)
(* Claims on the regional diagnostic.                                      *)
(***************************************************************************)
InCache(ids, i) == \E p \in DOMAIN ids : ids[p] = i

\* the centroid of cell i from the coordinates of its three vertices
CentroidOf(i) ==
    LET a == points[cells[i].point_ids[1]]
        b == points[cells[i].point_ids[2]]
        c == points[cells[i].point_ids[3]]
    IN  <<RDiv(RAdd(a[1], RAdd(b[1], c[1])), RInt(3)),
          RDiv(RAdd(a[2], RAdd(b[2], c[2])), RInt(3))>>

C12_RegionIntegral ==
    (oil # <<>> /\ oil.raised = "") =>
        LET ids == oil.fishing_cells
            n == Len(ids)
            Terms == [k \in 0..(n - 1) |->
                         RMul(oil.u[ids[k + 1]], compute_area(cells[ids[k + 1]]))]
            Areas == [k \in 0..(n - 1) |-> compute_area(cells[ids[k + 1]])]
        IN  /\ oil.val = Total(Terms)
            /\ (\A i \in Ids(cells) : IsTriangle(cells[i]) => oil.u[i] = ROne)
                  => oil.val = Total(Areas)
            /\ ids = <<>> => oil.val = RZero

\* the query has returned a nonzero value over a cache of two Triangles of
\* different areas, all Triangles holding 1.0
C12_Witness ==
    /\ oil # <<>> /\ oil.raised = "" /\ oil.val # RZero
    /\ \A i \in Ids(cells) : IsTriangle(cells[i]) => oil.u[i] = ROne
    /\ \E p, q \in DOMAIN oil.fishing_cells :
          compute_area(cells[oil.fishing_cells[p]]) #
              compute_area(cells[oil.fishing_cells[q]])

\* C30: oil_in_fishing_ground() raises, and returns no number, whenever
\* find_fishing_ground_cells has not been called on the Simulation, also
\* after set_initial_state() and step() as run() performs them; once it has
\* been called, the query returns a number.
C30_CacheUnset ==
    oil # <<>> =>
        /\ ~oil.found => oil.raised = "AttributeError"
        /\ oil.found => oil.raised = ""

\* the query has raised on a Simulation that was given its initial state and
\* stepped, and never searched for its fishing ground
C30_Witness ==
    /\ oil # <<>> /\ oil.raised = "AttributeError"
    /\ oil.stepped >= 1 /\ hist.scen = "gauss" /\ hist.rect = <<>>

(***************************************************************************)
(* Claims on Triangle construction, its getters and its geometry.          *)
(***************************************************************************)
\* C13: Triangle(point_ids, ...) raises ValueError and leaves no Triangle
\* exactly when point_ids does not hold 3 ids, with or without coordinates;
\* with 3 ids the Triangle holds the ids it was given.
C13_ThreeIds ==
    tri # <<>> /\ tri.built =>
        /\ Len(tri.point_ids) # 3 =>
              tri.raised = "ValueError" /\ tri.obj = <<>>
        /\ Len(tri.point_ids) = 3 =>
              /\ tri.raised = ""
              /\ tri.obj # <<>>
              /\ tri.obj.point_ids = tri.point_ids

\* construction with coordinates and four ids has failed
C13_Witness ==
    /\ tri # <<>> /\ tri.built /\ tri.with_points
    /\ Len(tri.point_ids) = 4
    /\ tri.raised = "ValueError"

\* C14: every read of x_mid, midpoint, area, edge_points, normals, velocity
\* or edge_vector of a Triangle built with points=None raises RuntimeError
\* and returns nothing, also after compute_neighbors; no such read raises on
\* a Triangle built with coordinates.
C14_GeometryUnavailable ==
    got # <<>> =>
        /\ ~tri.with_points => got.raised = "RuntimeError" /\ got.val = <<>>
        /\ tri.with_points => got.raised = "" /\ got.val # <<>>

\* edge_vector has been read on a topology-only Triangle after
\* compute_neighbors gave it a neighbor
C14_Witness ==
    /\ got # <<>> /\ got.attr = "edge_vector" /\ got.scanned
    /\ ~tri.with_points
    /\ tri.obj.neighbors # <<>>
    /\ got.raised = "RuntimeError"

\* twice the signed area of the points a, b, c
Det(a, b, c) ==
    RAdd(RAdd(RMul(a[1], RSub(b[2], c[2])), RMul(b[1], RSub(c[2], a[2]))),
         RMul(c[1], RSub(a[2], b[2])))

\* the points a, b, c lie on one line: (b - a) x (c - a) = 0
Collinear(a, b, c) ==
    RMul(RSub(b[1], a[1]), RSub(c[2], a[2])) =
        RMul(RSub(b[2], a[2]), RSub(c[1], a[1]))

Permutations3 ==
    {f \in [1..3 -> 1..3] : \A x, y \in 1..3 : x # y => f[x] # f[y]}

HasGeometry == tri # <<>> /\ tri.built /\ tri.raised = "" /\ tri.with_points

IsNumber(v) == v[1] # NaN /\ v[2] # NaN

\* C18: for a Triangle built with coordinates and each edge k, normals[k] is
\* orthogonal to edge_vector[k], as long as edge k, and points away from the
\* centroid when the area is positive; the three normals sum to (0, 0).
C18_Normals ==
    HasGeometry =>
        LET n == tri.obj.normals
            ev == EdgeVectorGetter(tri.obj).val
            ep == tri.obj.edge_points
        IN  /\ \A k \in 1..3 :
                  /\ IsNumber(n[k])
                  /\ Dot(n[k], ev[k]) = RZero
                  /\ Dot(n[k], n[k]) = Dot(ev[k], ev[k])
                  /\ RLt(RZero, tri.obj.area) =>
                        RLt(RZero,
                            Dot(n[k], VSub(VScale(RHalf,
                                                  VAdd(ep[k][1], ep[k][2])),
                                           tri.obj.x_mid)))
            /\ VAdd(VAdd(n[1], n[2]), n[3]) = VZero

(***************************************************************************)
(* Claims on repeated adjacency passes.                                    *)
(***************************************************************************)
\* C19: on a mesh that does not change, every compute_neighbors call on a
\* cell, alone or inside Mesh.computeNeighbors, leaves the cell with the
\* neighbors list and the edge_to_neighbor mapping its first call left, and
\* the list names no cell twice.
C19_Idempotent ==
    nbrhist # <<>> =>
        \A i \in Ids(cells) :
            nbrhist[i].count >= 1 =>
                /\ neighbors[i] = nbrhist[i].first.neighbors
                /\ edge_to_neighbor[i] = nbrhist[i].first.edge_to_neighbor
                /\ \A p, q \in DOMAIN neighbors[i] :
                      p # q => neighbors[i][p] # neighbors[i][q]

\* a Triangle with a neighbor on one of its edges has been passed twice
C19_Witness ==
    /\ nbrhist # <<>>
    /\ \E i \in Ids(cells) :
          /\ nbrhist[i].count >= 2
          /\ neighbors[i] # <<>>
          /\ edge_to_neighbor[i] # NoAttr
          /\ edge_to_neighbor[i] # NoEdges

(***************************************************************************)
(* Claims on Mesh construction.                                            *)
(***************************************************************************)
\* the rows of the line and triangle blocks of a file, in block order, each
\* with the type of its block
RECURSIVE Recognized(_, _)
Recognized(blocks, b) ==
    IF b > Len(blocks) THEN <<>>
    ELSE (IF blocks[b].type \in {"line", "triangle"}
          THEN [r \in 1..Len(blocks[b].data) |->
                   <<blocks[b].type, blocks[b].data[r]>>]
          ELSE <<>>) \o Recognized(blocks, b + 1)

\* C15: a Mesh that was read holds one cell per row of the line and triangle
\* blocks, in block and row order, a Line for a line row and a Triangle for
\* a triangle row, and the cell at position i has idx i, counted from 0 over
\* both types; blocks of other types give no cell and use no id.
C15_SequentialIds ==
    (mesh # <<>> /\ mesh.raised = "") =>
        LET rows == Recognized(file.blocks, 1)
            cs == mesh.obj.cells
        IN  /\ Len(cs) = Len(rows)
            /\ \A p \in DOMAIN cs :
                  /\ cs[p].idx = p - 1
                  /\ cs[p].point_ids = rows[p][2]
                  /\ cs[p].kind = "line" <=> rows[p][1] = "line"
                  /\ cs[p].kind = "tri" <=> rows[p][1] = "triangle"

\* a file with a block of two unsupported rows, then a line block, then a
\* triangle block has been read
C15_Witness ==
    /\ mesh # <<>> /\ mesh.raised = ""
    /\ Len(file.blocks) = 3
    /\ file.blocks[1].type = "triangle6"
    /\ file.blocks[2].type = "line"
    /\ file.blocks[3].type = "triangle"
    /\ Len(mesh.obj.cells) >= 3

WellFormedBorders(b) ==
    /\ b.t = "list" /\ Len(b.items) = 2
    /\ \A k \in 1..2 :
          /\ b.items[k].t = "list" /\ Len(b.items[k].items) = 2
          /\ IsIntOrFloat(b.items[k].items[1])
          /\ IsIntOrFloat(b.items[k].items[2])
          /\ RLt(b.items[k].items[1].n, b.items[k].items[2].n)

\* the files the statement rejects
Rejected(d) ==
    \/ d.meshName.t = "none" \/ d.nSteps.t = "none" \/ d.tEnd.t = "none"
    \/ d.borders.t = "none"
    \/ d.nSteps.t # "int"
    \/ RLe(d.nSteps.n, RZero)
    \/ IsIntOrFloat(d.tEnd) /\ RLe(d.tEnd.n, RZero)
    \/ ~WellFormedBorders(d.borders)

\* the files the statement accepts
Accepted(d) ==
    /\ ~Rejected(d)
    /\ IsIntOrFloat(d.tEnd)
    /\ d.logName.t = "none" \/ (d.logName.t = "str" /\ ~Blank(d.logName))

\* C20: Config construction raises ValueError and returns no Config when
\* meshName, nSteps, tEnd or borders is missing, when nSteps is not an
\* integer or is <= 0, when tEnd <= 0, or when borders is not
\* [[x_min, x_max], [y_min, y_max]] with x_min < x_max and y_min < y_max;
\* for a valid file it returns a Config with dt = tEnd / nSteps.
C20_Validation ==
    config # <<>> =>
        /\ Rejected(toml) =>
              config.raised = "ValueError" /\ config.obj = <<>>
        /\ Accepted(toml) =>
              /\ config.raised = ""
              /\ config.obj.dt = RDiv(toml.tEnd.n, toml.nSteps.n)

(***************************************************************************)
(* Claims on the flux functions.                                           *)
(***************************************************************************)
\* C6: flux(a, b, normal, v) with dot = v . normal is a * dot when dot > 0,
\* b * dot when dot < 0, and 0 when dot = 0 whatever a and b are.
C6_Upwind ==
    (fres # <<>> /\ fres.fn = "flux") =>
        LET dot == RAdd(RMul(fargs.v_i[1], fargs.normal[1]),
                        RMul(fargs.v_i[2], fargs.normal[2]))
        IN  /\ dot[1] > 0 => fres.val = RMul(fargs.a, dot)
            /\ dot[1] < 0 => fres.val = RMul(fargs.b, dot)
            /\ dot[1] = 0 => fres.val = RZero

\* flux has been called with a and b nonzero and different, and dot = 0
C6_Witness ==
    /\ fres # <<>> /\ fres.fn = "flux"
    /\ fargs.a # RZero /\ fargs.b # RZero /\ fargs.a # fargs.b
    /\ fargs.v_i # VZero
    /\ Dot(fargs.v_i, fargs.normal) = RZero

\* C7: flux_contribution(u_i, u_l, area_i, normal, v_i, v_l, dt) is
\* -dt / area_i * flux(u_i, u_l, normal, 0.5 * (v_i + v_l)): the upwind value
\* times the dot product of the averaged velocity and the normal, scaled by
\* dt / area and negated; it is exactly 0 when both velocities are zero.
C7_Contribution ==
    (fres # <<>> /\ fres.fn = "flux_contribution") =>
        LET sx == RAdd(fargs.v_i[1], fargs.v_ngh[1])
            sy == RAdd(fargs.v_i[2], fargs.v_ngh[2])
            twodot == RAdd(RMul(sx, fargs.normal[1]), RMul(sy, fargs.normal[2]))
            upwind == IF twodot[1] > 0 THEN fargs.a ELSE fargs.b
        IN  /\ RMul(RMul(RInt(2), fargs.area), fres.val) =
                   RNeg(RMul(fargs.dt, RMul(upwind, twodot)))
            /\ (fargs.v_i = VZero /\ fargs.v_ngh = VZero) => fres.val = RZero

\* flux_contribution has been called with two different velocities whose
\* average crosses the edge outward, and returned a nonzero value
C7_Witness ==
    /\ fres # <<>> /\ fres.fn = "flux_contribution"
    /\ fargs.v_i # fargs.v_ngh
    /\ fargs.v_i # VZero /\ fargs.v_ngh # VZero
    /\ fres.val # RZero

(***************************************************************************)
(* Claims on run().                                                        *)
(***************************************************************************)
\* n applications of step() to the arrays uu, un
RECURSIVE IterStep(_, _, _)
IterStep(uu, un, n) ==
    IF n <= 0 THEN [u |-> uu, u_new |-> un]
    ELSE LET r == StepResult(cells, neighbors, edge_to_neighbor, uu, un, dt)
         IN  IterStep(r.u, r.u_new, n - 1)

\* the array set_initial_state() leaves with its defaults
RunStart == set_initial_state(cells, u, <<<<7, 20>>, <<9, 20>>>>, <<1, 100>>)

\* floor(t_end / dt) for dt > 0, never below 0
FloorSteps ==
    LET n == (run.t_end[1] * dt[2]) \div (run.t_end[2] * dt[1])
    IN  IF n < 0 THEN 0 ELSE n

\* C8: run(t_end, writeFrequency) first applies the initial condition, over
\* whatever u held, then calls step() exactly floor(t_end / dt) times in a
\* row; for t_end < dt it takes no step.
C8_RunSteps ==
    /\ pc \in {"loop", "swap", "plot"} =>
          /\ calls = [p \in 1..(run.completed + 1) |->
                         IF p = 1 THEN "set_initial_state" ELSE "step"]
          /\ run.completed <= FloorSteps
          /\ u = IterStep(RunStart, u, run.completed).u
    /\ (pc = "idle" /\ hist.last = "run") =>
          /\ calls = [p \in 1..(FloorSteps + 1) |->
                         IF p = 1 THEN "set_initial_state" ELSE "step"]
          /\ u = IterStep(RunStart, u, FloorSteps).u
          /\ RLt(run.t_end, dt) => Len(calls) = 1

\* run() has returned after two or more steps, called on an array of ones
C8_Witness ==
    /\ pc = "idle" /\ hist.last = "run"
    /\ Len(calls) >= 3
    /\ \E i \in Ids(cells) : run.u0[i] = ROne /\ u[i] # ROne
    /\ u # RunStart

\* C9: plot_solution is handed u only between completed steps, never while a
\* step is in progress, and u is then the result of the step just completed;
\* it is called after the steps whose loop index is a multiple of
\* writeFrequency when writeFrequency > 0, and never when writeFrequency is
\* None or <= 0.
C9_Rendering ==
    /\ \A p \in DOMAIN rendered :
          /\ rendered[p].started = rendered[p].completed
          /\ rendered[p].completed = rendered[p].step + 1
          /\ rendered[p].u = IterStep(RunStart, u, rendered[p].step + 1).u
          /\ run.writeFrequency # <<>> /\ run.writeFrequency[1] > 0
          /\ rendered[p].step % run.writeFrequency[1] = 0
          /\ \A q \in DOMAIN rendered : q < p => rendered[q].step < rendered[p].step
    /\ pc = "swap" => \A p \in DOMAIN rendered :
                          rendered[p].completed < run.started
    /\ (run.writeFrequency # <<>> /\ run.writeFrequency[1] > 0) =>
          \A k \in 0..(run.step - 1) :
              k % run.writeFrequency[1] = 0 =>
                  \E p \in DOMAIN rendered : rendered[p].step = k
    /\ (run.writeFrequency = <<>> \/ run.writeFrequency[1] <= 0) =>
          rendered = <<>>

\* run() has returned after three steps with writeFrequency = 2: the renderer
\* was called after the steps of index 0 and 2, with different arrays
C9_Witness ==
    /\ pc = "idle" /\ hist.last = "run"
    /\ run.writeFrequency = <<2>>
    /\ Len(rendered) = 2
    /\ rendered[1].step = 0 /\ rendered[2].step = 2
    /\ rendered[1].u # rendered[2].u

(***************************************************************************)
(* Claims on run_single_config.                                            *)
(***************************************************************************)
\* a mesh has been read or asked for, adjacency computed, a Simulation
\* constructed or a step taken
MeshOrSimulationWork ==
    \/ mesh # <<>> \/ cells # <<>> \/ passed # {}
    \/ u # <<>> \/ hist.steps > 0

\* C21: in run_single_config no mesh is read, no adjacency computed and no
\* step taken before Config has returned a validated configuration, and when
\* Config raises the run ends with that exception and none of this work
\* done.
C21_ConfigFirst ==
    main # <<>> =>
        /\ MeshOrSimulationWork => config # <<>> /\ config.raised = ""
        /\ (config # <<>> /\ config.raised # "") =>
              /\ main.pc = "aborted" /\ main.raised = config.raised
              /\ ~MeshOrSimulationWork

\* a valid configuration was loaded, then a mesh with cells was read, its
\* adjacency computed and the Simulation constructed
C21_Witness ==
    /\ main # <<>> /\ main.pc = "run"
    /\ config.raised = "" /\ mesh.raised = ""
    /\ passed # {} /\ u # <<>>

(***************************************************************************)
(* Claims on the edge loop of step().                                      *)
(***************************************************************************)
\* what local edge k of Triangle i adds in a step from the array pre
MatchedEdge(pre, i, k) ==
    EdgeContribution(cells, edge_to_neighbor, pre, pre, dt, i, k)

\* the contributions of the edges 0, 1, 2 of Triangle i whose slot is set
MatchedEdges(pre, i) ==
    RAdd(MatchedEdge(pre, i, 0),
         RAdd(MatchedEdge(pre, i, 1), MatchedEdge(pre, i, 2)))

PositiveArea(i) ==
    IsTriangle(cells[i]) /\ RLt(RZero, compute_area(cells[i]))

\* C22: after a step() that returns, the value of every Triangle of positive
\* area is its value before the step plus the contributions of all its
\* local edges 0, 1, 2 whose edge_to_neighbor slot is set.
C22_AllMatchedEdges ==
    hist.last = "step" =>
        \A i \in Ids(cells) :
            PositiveArea(i) => u[i] = RAdd(hist.pre[i], MatchedEdges(hist.pre, i))

(***************************************************************************)
(* Claims on Boundary Segments in step().                                  *)
(***************************************************************************)
\* a Line lies on local edge k of Triangle i
BoundaryEdge(i, k) ==
    \E j \in Ids(cells) :
        IsLine(cells[j]) /\ PointSet(cells[j]) = EdgeIds(cells[i], k)

\* -dt/area * flux(u_i, 0, normal, 0.5 * (v_i + 0)) for a boundary edge
BoundaryContribution(pre, i, k) ==
    IF BoundaryEdge(i, k)
    THEN flux_contribution(pre[i], RZero, compute_area(cells[i]),
                           compute_normals(cells[i], k),
                           velocity_field(cells[i]), VZero, dt)
    ELSE RZero

\* C23: after a step() that returns, a Triangle of positive area whose
\* neighbors are all Boundary Segments holds its old value plus, for each
\* edge a Boundary Segment lies on, -dt/area * flux(u_i, 0, normal,
\* 0.5 * v_i).
C23_BoundaryOutflow ==
    hist.last = "step" =>
        \A i \in Ids(cells) :
            (/\ PositiveArea(i)
             /\ \A p \in DOMAIN neighbors[i] : IsLine(cells[neighbors[i][p]]))
            => u[i] = RAdd(hist.pre[i],
                           RAdd(BoundaryContribution(hist.pre, i, 0),
                                RAdd(BoundaryContribution(hist.pre, i, 1),
                                     BoundaryContribution(hist.pre, i, 2))))

\* C26: on a mesh read by Mesh and passed through computeNeighbors, step()
\* does not raise.
C26_StepCompletes == hist.last # "step_raised"

(***************************************************************************)
(* Claims on the buffers of step().                                        *)
(***************************************************************************)
\* what a step from the array pre leaves in cell i, from pre and the mesh
\* alone
AfterStep(pre, i) ==
    IF IsLine(cells[i]) THEN RZero
    ELSE IF ~PositiveArea(i) THEN pre[i]
    ELSE RAdd(pre[i],
              EdgeLoop(cells, edge_to_neighbor, pre, pre, dt, i, 0,
                       Len(neighbors[i])))

\* C24: after a step() that returns, every cell holds a value that depends
\* on the array before the step and the mesh only, whatever the scratch
\* array held and whichever cells were processed before it, and the
\* scratch array holds the array before the step.
C24_Snapshot ==
    hist.last = "step" =>
        /\ \A i \in Ids(cells) : u[i] = AfterStep(hist.pre, i)
        /\ u_new = hist.pre

\* a step has returned from u = 1.0 everywhere, entered with the scratch
\* array still at 0, on a mesh with a Triangle the sweep skips and a
\* Triangle whose value changed
C24_Witness ==
    /\ hist.last = "step" /\ hist.steps = 1 /\ hist.scen = "ones"
    /\ \E i \in Ids(cells) : PositiveArea(i) /\ u[i] # hist.pre[i]
    /\ \E i \in Ids(cells) : IsTriangle(cells[i]) /\ ~PositiveArea(i)

\* C25: a step() over a mesh with a Triangle of area <= 0 returns, leaves
\* that Triangle's value as it was, and updates the other cells.
C25_DegenerateSkipped ==
    \A i \in Ids(cells) :
        (IsTriangle(cells[i]) /\ ~PositiveArea(i)) =>
            /\ hist.last # "step_raised"
            /\ hist.last = "step" =>
                  /\ u[i] = hist.pre[i]
                  /\ \A j \in Ids(cells) : u[j] = AfterStep(hist.pre, j)

\* a step has returned on a mesh with a collinear Triangle holding a nonzero
\* value, and it changed the value of another Triangle
C25_Witness ==
    /\ hist.last = "step"
    /\ \E i, j \in Ids(cells) :
          /\ IsTriangle(cells[i]) /\ ~PositiveArea(i) /\ hist.pre[i] # RZero
          /\ PositiveArea(j) /\ u[j] # hist.pre[j]

\* C29: on a mesh whose adjacency pass has not been run, a step() leaves
\* the value of every Triangle as it was and sets every Line to 0.
C29_NoAdjacency ==
    (hist.last = "step" /\ \A i \in Ids(cells) : neighbors[i] = <<>>) =>
        \A i \in Ids(cells) :
            u[i] = IF IsTriangle(cells[i]) THEN hist.pre[i] ELSE RZero

\* a step has returned on a mesh without adjacency that holds cells sharing
\* an edge, a Triangle with a nonzero value and a Line with a nonzero value
C29_Witness ==
    /\ hist.last = "step" /\ passed = {}
    /\ \E i, j \in Ids(cells) :
          /\ i # j /\ Cardinality(PointSet(cells[i]) \cap PointSet(cells[j])) = 2
          /\ PositiveArea(i) /\ hist.pre[i] # RZero
    /\ \E i \in Ids(cells) : IsLine(cells[i]) /\ hist.pre[i] # RZero

(***************************************************************************)
(* Claims on conservation.                                                 *)
(***************************************************************************)
\* u[i] * area(i), 0 for a Line
CellMass(uu, i) ==
    IF IsTriangle(cells[i]) THEN RMul(uu[i], compute_area(cells[i])) ELSE RZero

RECURSIVE MassFrom(_, _)
MassFrom(uu, i) ==
    IF i \notin Ids(cells) THEN RZero
    ELSE RAdd(CellMass(uu, i), MassFrom(uu, i + 1))

\* the sum of u[i] * area(i) over the Triangles
Mass(uu) == MassFrom(uu, 0)

\* every cell is a Triangle of positive area
OnlyTriangles == \A i \in Ids(cells) : PositiveArea(i)

\* C27: on a mesh of Triangles with adjacency computed, a step() leaves the
\* sum of u[i] * area(i) as it was.
C27_MassConserved ==
    (hist.last = "step" /\ passed = Ids(cells) /\ OnlyTriangles) =>
        Mass(u) = Mass(hist.pre)

====
